---- MODULE Spec2Model ----
(***************************************************************************)
(* kju (lib/kju.js): an in-memory batching queue with a self-tuning flush  *)
(* interval, an exit-time backup hook and a start-up recovery pass.        *)
(*                                                                         *)
(* JavaScript runs one callback at a time, so every public call, timer     *)
(* callback and I/O completion is one atomic action.  The methods of the   *)
(* object are operators from a world record (the fields of `this` plus the *)
(* parts of the host they touch: pending timers, the process's exit        *)
(* listeners, the signals emitted) to the world they leave behind, so a    *)
(* method that calls another method is the composition of the two.         *)
(***************************************************************************)
EXTENDS Integers, Sequences, FiniteSets, TLC

VARIABLES
    limit,      \* this.limit
    ms,         \* this.ms
    warnings,   \* this.warnings
    interval,   \* this.interval
    minimum,    \* this.minimum
    maximum,    \* this.maximum
    buffer,     \* this.buffer
    length,     \* this.length
    drained,    \* this.drained
    processed,  \* this.processed
    timeout,    \* this.timeout: a timer handle, or None when the property is absent
    timers,     \* host: handles of the timers still pending in the event loop
    delay,      \* host: the delay the latest setTimeout was given
    listeners,  \* host: the functions registered on process 'exit'
    emitted,    \* the signals emitted by the latest action, in order
    published,  \* history: every data signal emitted by this process
    pushed,     \* history: every item handed to push by this process
    produced,   \* history: how many items the producer has made, in all processes
    faults,     \* host: exceptions thrown out of a callback of this process
    status,     \* host: "running", "crashed" or "exited"
    handled,    \* host: TRUE iff the host installed an uncaughtException handler
    dir,        \* file system: TRUE iff this.path exists
    disk,       \* file system: file name -> contents
    rec,        \* recovery(): which of its callbacks is pending
    reads,      \* recovery(): files whose fs.readFile has not completed yet
    backups,    \* history: how many times backup() ran
    saved,      \* history: the buffer backup() found when it last ran
    gen,        \* how many times the process was started again
    run,        \* history: how many updates in a row found the buffer underfull
    op          \* the latest operation

vars == <<limit, ms, warnings, interval, minimum, maximum, buffer, length,
          drained, processed, timeout, timers, delay, listeners, emitted,
          published, pushed, produced, faults, status, handled, dir, disk,
          rec, reads, backups, saved, gen, run, op>>

(* ---------------------------------------------------------------- bounds *)

MaxItems == 2        \* items the producer makes
MaxArgs == 2         \* arguments of one push call
MaxLimit == 2        \* this.limit ranges over 1..MaxLimit
MaxMs == 2           \* this.ms ranges over 1..MaxMs
MaxHalf == 2         \* the baseline interval ranges over 2, 4, .., 2 * MaxHalf
MaxListeners == 2    \* enable() is not called with this many exit listeners
MaxDrained == 3      \* drain() is not called directly once drained reaches this
MaxRestarts == 1     \* process restarts
MaxNest == 1         \* calls a data subscriber makes while a tick delivers

(* --------------------------------------------------------------- helpers *)

None == 0

Sig(name) == [name |-> name, batch |-> <<>>, count |-> 0]
DataSig(batch, count) == [name |-> "data", batch |-> batch, count |-> count]

\* the names of the signals of a log
Names(log) == [i \in 1..Len(log) |-> log[i].name]

RECURSIVE Flatten(_)
Flatten(batches) ==
    IF batches = <<>> THEN <<>>
    ELSE Head(batches).batch \o Flatten(Tail(batches))

RECURSIVE SumCounts(_)
SumCounts(batches) ==
    IF batches = <<>> THEN 0
    ELSE Len(Head(batches).batch) + SumCounts(Tail(batches))

Occurrences(s, x) == Cardinality({i \in 1..Len(s) : s[i] = x})

Range(s) == {s[i] : i \in 1..Len(s)}

\* s and t hold the same items the same number of times
SameItems(s, t) ==
    /\ Len(s) = Len(t)
    /\ \A x \in Range(s) \cup Range(t) : Occurrences(s, x) = Occurrences(t, x)

(* ----------------------------------------------------------- file system *)

\* a file name is its dot-separated parts: <<"a", "kju">> is a.kju
Files == {<<"a", "kju">>, <<"b", "kju">>, <<"kju", "txt">>}

\* /\.kju$/.test(file)
IsKju(file) == file[Len(file)] = "kju"

Absent == [kind |-> "absent", items |-> <<>>]
Unreadable == [kind |-> "unreadable", items |-> <<>>]   \* fs.readFile fails
Corrupt == [kind |-> "corrupt", items |-> <<>>]         \* JSON.parse throws
Array(items) == [kind |-> "array", items |-> items]     \* a JSON array

\* the items a recovery file of that name holds when it holds an array
Stored(file) ==
    IF file = <<"a", "kju">> THEN <<101, 102>>
    ELSE IF file = <<"b", "kju">> THEN <<103>>
    ELSE <<104>>

Contents(file) ==
    IF IsKju(file) THEN {Absent, Unreadable, Corrupt, Array(Stored(file))}
    ELSE {Array(Stored(file))}

\* fs.readdir(this.path)
readdir(d) == {f \in Files : d[f].kind # "absent"}

(* ------------------------------------------------------------- the world *)

World ==
    [limit |-> limit, ms |-> ms, warnings |-> warnings, interval |-> interval,
     minimum |-> minimum, maximum |-> maximum, buffer |-> buffer,
     length |-> length, drained |-> drained, processed |-> processed,
     timeout |-> timeout, timers |-> timers, delay |-> delay,
     listeners |-> listeners, emitted |-> <<>>, published |-> published,
     pushed |-> pushed, produced |-> produced, faults |-> faults,
     status |-> status, run |-> run, script |-> <<>>]

\* the next state holds world w
Becomes(w) ==
    \E v \in {w} :
        /\ limit' = v.limit
        /\ ms' = v.ms
        /\ warnings' = v.warnings
        /\ interval' = v.interval
        /\ minimum' = v.minimum
        /\ maximum' = v.maximum
        /\ buffer' = v.buffer
        /\ length' = v.length
        /\ drained' = v.drained
        /\ processed' = v.processed
        /\ timeout' = v.timeout
        /\ timers' = v.timers
        /\ delay' = v.delay
        /\ listeners' = v.listeners
        /\ emitted' = v.emitted
        /\ published' = v.published
        /\ pushed' = v.pushed
        /\ produced' = v.produced
        /\ faults' = v.faults
        /\ status' = v.status
        /\ run' = v.run

\* EventEmitter2's emit: the signal is recorded; a data signal also goes
\* into the history of batches
emit(w, sig) ==
    [w EXCEPT !.emitted = Append(@, sig),
              !.published = IF sig.name = "data" THEN Append(@, sig) ELSE @]

\* a handle no pending timer has and this.timeout does not hold
NewTimer(w) ==
    CHOOSE id \in 1..(Cardinality(w.timers) + 2) :
        id \notin w.timers /\ id # w.timeout

\* this.timeout = setTimeout(update.bind(this), this.interval)
setTimeout(w) ==
    LET id == NewTimer(w)
    IN  [w EXCEPT !.timeout = id, !.timers = @ \cup {id}, !.delay = w.interval]

\* clearTimeout(this.timeout): a handle that already fired is not pending
clearTimeout(w) == [w EXCEPT !.timers = @ \ {w.timeout}]

\* f.bind(this) makes a function object that is none of those made before
bind(w) ==
    CHOOSE fn \in 1..(Cardinality(w.listeners) + 1) : fn \notin w.listeners

\* an exception leaves a callback: the host's handler takes it, or the
\* process dies
throw(w, caught) ==
    [w EXCEPT !.faults = @ + 1,
              !.status = IF caught THEN @ ELSE "crashed"]

(* ------------------------------------------------------------ the methods *)

RECURSIVE drain(_), disable(_, _), update(_), subscriber(_)

\* the statement this.update.bind(this): a function object is made and
\* dropped, update is not called
bound(w) == w

\* push with the arguments put in front of the buffer
pushUnshift(w, items) ==
    LET w1 == [w EXCEPT !.length = @ + Len(items),
                        !.buffer = items \o @,
                        !.pushed = @ \o items]
    IN  IF w1.length >= w1.limit THEN bound(w1) ELSE w1

\* kju.prototype.push, called with the arguments items
push(w, items) ==
    LET w1 == [w EXCEPT !.length = @ + Len(items),
                        !.buffer = @ \o items,
                        !.pushed = @ \o items]
    IN  IF w1.length >= w1.limit THEN bound(w1) ELSE w1

\* kju.prototype.enable
enable(w) ==
    IF w.timeout # None THEN w
    ELSE LET w1 == setTimeout(w)
             w2 == [w1 EXCEPT !.listeners = @ \cup {bind(w1)}]
         IN  emit(w2, Sig("enabled"))

\* drain with the reset of this.length moved before the counters
drainResetFirst(w) ==
    LET batch == w.buffer
        count == w.length
        w1 == emit([w EXCEPT !.buffer = <<>>], DataSig(batch, count))
        w2 == [subscriber(w1) EXCEPT !.length = 0]
    IN  [w2 EXCEPT !.drained = @ + 1, !.processed = @ + w2.length]

\* kju.prototype.drain: the arguments of emit are evaluated first (splice
\* empties the buffer, this.length is read), the listeners of 'data' run
\* inside emit, the counters are updated after it returns
drain(w) ==
    LET batch == w.buffer
        count == w.length
        w1 == emit([w EXCEPT !.buffer = <<>>], DataSig(batch, count))
        w2 == subscriber(w1)
    IN  [w2 EXCEPT !.drained = @ + 1,
                   !.processed = @ + w2.length,
                   !.length = 0]

\* disable without delete this.timeout
disableKeepsHandle(w, nocommit) ==
    IF w.timeout = None THEN w
    ELSE LET w1 == IF w.length # 0 /\ ~nocommit THEN drain(w) ELSE w
             w2 == IF w1.timeout # None THEN clearTimeout(w1) ELSE w1
             w3 == [w2 EXCEPT !.listeners = @ \ {bind(w2)}]
         IN  emit(w3, Sig("disabled"))

\* disable with 'disabled' emitted before the final drain
disableSignalsFirst(w, nocommit) ==
    IF w.timeout = None THEN w
    ELSE LET w0 == emit(w, Sig("disabled"))
             w1 == IF w0.length # 0 /\ ~nocommit THEN drain(w0) ELSE w0
             w2 == IF w1.timeout # None THEN clearTimeout(w1) ELSE w1
             w3 == [w2 EXCEPT !.listeners = @ \ {bind(w2)}]
         IN  [w3 EXCEPT !.timeout = None]

\* kju.prototype.disable
disable(w, nocommit) ==
    IF w.timeout = None THEN w
    ELSE LET w1 == IF w.length # 0 /\ ~nocommit THEN drain(w) ELSE w
             w2 == IF w1.timeout # None THEN clearTimeout(w1) ELSE w1
             \* removeListener is given a function bound just now, which
             \* is none of the registered ones
             w3 == [w2 EXCEPT !.listeners = @ \ {bind(w2)}]
             w4 == [w3 EXCEPT !.timeout = None]
         IN  emit(w4, Sig("disabled"))

\* the updates an interval needs at most to settle on maximum: it starts
\* no lower than minimum - ms + 1, climbs by ms until it is at or beyond
\* maximum, and is set to maximum by the update after that
Patience(w) == (w.maximum - w.minimum + 2 * w.ms - 2) \div w.ms + 1

\* one more underfull update in a row, counted up to Patience(w)
counted(w) == IF w.run < Patience(w) THEN w.run + 1 ELSE w.run

\* tune with the warning given only by the update that reaches maximum
tuneWarnsOnce(w) ==
    IF w.length = 0 \/ w.length < w.limit
    THEN LET w1 == [w EXCEPT !.interval = IF w.interval >= w.maximum
                                           THEN w.maximum
                                           ELSE w.interval + w.ms,
                             !.run = counted(w)]
         IN  IF w1.warnings /\ w1.interval = w1.maximum
                /\ w.interval # w.maximum
             THEN emit(w1, Sig("warning.maximum"))
             ELSE w1
    ELSE LET w1 == [w EXCEPT !.interval = IF w.interval <= w.minimum
                                           THEN w.minimum
                                           ELSE w.interval - w.ms,
                             !.run = 0]
         IN  IF w1.warnings /\ w1.interval = w1.minimum
             THEN emit(w1, Sig("warning.minimum"))
             ELSE w1

\* the interval and warning of kju.prototype.update, lines 193 to 214
tune(w) ==
    IF w.length = 0 \/ w.length < w.limit
    THEN LET w1 == [w EXCEPT !.interval = IF w.interval >= w.maximum
                                           THEN w.maximum
                                           ELSE w.interval + w.ms,
                             !.run = counted(w)]
         IN  IF w1.warnings /\ w1.interval = w1.maximum
             THEN emit(w1, Sig("warning.maximum"))
             ELSE w1
    ELSE IF w.length >= w.limit
         THEN LET w1 == [w EXCEPT !.interval = IF w.interval <= w.minimum
                                                THEN w.minimum
                                                ELSE w.interval - w.ms,
                                  !.run = 0]
              IN  IF w1.warnings /\ w1.interval = w1.minimum
                  THEN emit(w1, Sig("warning.minimum"))
                  ELSE w1
         ELSE w

\* update without clearTimeout
updateKeepsTimer(w) ==
    IF w.timeout = None THEN w
    ELSE LET w1 == [w EXCEPT !.timeout = None]
             w2 == tune(w1)
             w3 == setTimeout(w2)
         IN  IF w3.length # 0 THEN drain(w3) ELSE w3

\* update without the drain of a filled buffer
updateNoDrain(w) ==
    IF w.timeout = None THEN w
    ELSE LET w1 == [clearTimeout(w) EXCEPT !.timeout = None]
             w2 == tune(w1)
         IN  setTimeout(w2)

\* update without the return on a missing this.timeout
updateUnguarded(w) ==
    LET w1 == [clearTimeout(w) EXCEPT !.timeout = None]
        w2 == tune(w1)
        w3 == setTimeout(w2)
    IN  IF w3.length # 0 THEN drain(w3) ELSE w3

\* kju.prototype.update
update(w) ==
    IF w.timeout = None THEN w
    ELSE LET w1 == [clearTimeout(w) EXCEPT !.timeout = None]
             w2 == tune(w1)
             w3 == setTimeout(w2)
         IN  IF w3.length # 0 THEN drain(w3) ELSE w3

\* what a listener of 'data' may call on the queue while the signal is
\* being delivered
Reactions == {"push", "enable", "disable", "nocommit", "update"}

\* the listeners of 'data': they make the next call of the script, if any
subscriber(w) ==
    IF w.script = <<>> THEN w
    ELSE LET call == Head(w.script)
             w1 == [w EXCEPT !.script = Tail(@)]
         IN  CASE call = "push" ->
                    IF w1.produced < MaxItems
                    THEN push([w1 EXCEPT !.produced = @ + 1],
                              <<w1.produced + 1>>)
                    ELSE w1
               [] call = "enable" -> enable(w1)
               [] call = "disable" -> disable(w1, FALSE)
               [] call = "nocommit" -> disable(w1, TRUE)
               [] call = "update" -> update(w1)

(* ------------------------------------------------------------ recovery *)

\* the callback readFile of read(file), given what fs.readFile found.
\* done is declared nowhere, so evaluating done() throws a ReferenceError:
\* on a read error before emit is reached (the comma operator evaluates
\* done() first), otherwise after the try statement
readFile(w, contents, caught) ==
    IF contents.kind \in {"unreadable", "absent"}
    THEN throw(w, caught)
    ELSE IF contents.kind = "array"
         THEN throw(push(w, contents.items), caught)
         ELSE throw(emit(w, Sig("error.recover")), caught)

(* --------------------------------------------------------- construction *)

\* the constructor kju(configuration), up to its return
New(lim, step, base, warn, en) ==
    LET w == [limit |-> lim, ms |-> step, warnings |-> warn,
              interval |-> base, minimum |-> base \div 2,
              maximum |-> base * 2, buffer |-> <<>>, length |-> 0,
              drained |-> 0, processed |-> 0, timeout |-> None,
              timers |-> {}, delay |-> 0, listeners |-> {},
              emitted |-> <<>>, published |-> <<>>, pushed |-> <<>>,
              produced |-> 0, faults |-> 0, status |-> "running",
              run |-> 0, script |-> <<>>]
    IN  IF en THEN enable(w) ELSE w

\* this state holds world w
Holds(w) ==
    /\ limit = w.limit
    /\ ms = w.ms
    /\ warnings = w.warnings
    /\ interval = w.interval
    /\ minimum = w.minimum
    /\ maximum = w.maximum
    /\ buffer = w.buffer
    /\ length = w.length
    /\ drained = w.drained
    /\ processed = w.processed
    /\ timeout = w.timeout
    /\ timers = w.timers
    /\ delay = w.delay
    /\ listeners = w.listeners
    /\ emitted = w.emitted
    /\ published = w.published
    /\ pushed = w.pushed
    /\ produced = w.produced
    /\ faults = w.faults
    /\ status = w.status
    /\ run = w.run

Limits == 1..MaxLimit
Steps == 1..MaxMs
\* even baselines, so that this.interval / 2 is the integer base \div 2
Bases == {2 * k : k \in 1..MaxHalf}

NoFiles == [f \in Files |-> Absent]
Disks == {d \in [Files -> UNION {Contents(f) : f \in Files}] :
             \A f \in Files : d[f] \in Contents(f)}

(* --------------------------------------------------------------- actions *)

Op(name) == [name |-> name, arg |-> <<>>]
OpOn(name, arg) == [name |-> name, arg |-> arg]

Running == status = "running"

\* the scripts of a data subscriber: at most n calls
ScriptsUpTo(n) == UNION {[1..k -> Reactions] : k \in 0..n}

\* a script that calls enable adds an exit listener
Allowed(script) ==
    "enable" \in Range(script) => Cardinality(listeners) < MaxListeners

Env == <<handled, dir, disk, backups, saved, gen>>
Async == <<rec, reads>>

\* the producer calls push with n fresh items
Push ==
    /\ Running
    /\ \E n \in 0..MaxArgs :
          /\ produced + n <= MaxItems
          /\ Becomes(push([World EXCEPT !.produced = @ + n],
                          [i \in 1..n |-> produced + i]))
    /\ op' = Op("push")
    /\ UNCHANGED <<Env, Async>>

\* drain() is called
Drain(Scripts) ==
    /\ Running
    /\ drained < MaxDrained
    /\ \E script \in Scripts :
          /\ Allowed(script)
          /\ Becomes(drain([World EXCEPT !.script = script]))
    /\ op' = Op("drain")
    /\ UNCHANGED <<Env, Async>>

\* enable() is called
Enable ==
    /\ Running
    /\ Cardinality(listeners) < MaxListeners
    /\ Becomes(enable(World))
    /\ op' = Op("enable")
    /\ UNCHANGED <<Env, Async>>

\* disable(nocommit) is called; the operation records whether the call
\* before it was a disable too
Disable(Scripts) ==
    /\ Running
    /\ \E nocommit \in BOOLEAN, script \in Scripts :
          /\ Allowed(script)
          /\ Becomes(disable([World EXCEPT !.script = script], nocommit))
          /\ op' = OpOn("disable",
                        (IF nocommit THEN <<"nocommit">> ELSE <<>>)
                            \o (IF op.name = "disable" THEN <<"again">>
                                                        ELSE <<>>))
    /\ UNCHANGED <<Env, Async>>

\* update() is called
Update(Scripts) ==
    /\ Running
    /\ \E script \in Scripts :
          /\ Allowed(script)
          /\ Becomes(update([World EXCEPT !.script = script]))
    /\ op' = Op("update")
    /\ UNCHANGED <<Env, Async>>

\* a pending timer fires: it leaves the event loop and its callback,
\* update bound to this, runs
Tick(Scripts) ==
    /\ Running
    /\ \E t \in timers, script \in Scripts :
          /\ Allowed(script)
          /\ Becomes(update([World EXCEPT !.timers = @ \ {t},
                                          !.script = script]))
    /\ op' = Op("tick")
    /\ UNCHANGED <<Env, Async>>

\* the callback existsPath of recovery(): it asks for the directory listing
ExistsPath ==
    /\ Running
    /\ rec = "exists"
    /\ rec' = IF dir THEN "readdir" ELSE "done"
    /\ Becomes(World)
    /\ op' = Op("existsPath")
    /\ UNCHANGED <<Env, reads>>

\* the callback filter of recovery(): the listing failed, or every .kju
\* file of it is handed to read, which starts an fs.readFile
Filter ==
    /\ Running
    /\ rec = "readdir"
    /\ \E err \in BOOLEAN :
          IF err
          THEN /\ Becomes(emit(World, Sig("error.backup")))
               /\ reads' = reads
               /\ rec' = "failed"
          ELSE /\ Becomes(World)
               /\ reads' = {f \in readdir(disk) : IsKju(f)}
               /\ rec' = "done"
    /\ op' = Op("filter")
    /\ UNCHANGED Env

\* an fs.readFile completes and its callback runs
ReadFile ==
    /\ Running
    /\ \E f \in reads :
          /\ reads' = reads \ {f}
          /\ Becomes(readFile(World, disk[f], handled))
          /\ op' = OpOn("readFile", f)
    /\ UNCHANGED <<Env, rec>>

\* kju.prototype.backup: the directory is looked for and listed, nothing
\* is written
backup(d) == d

\* the process exits: every listener of 'exit' runs backup
Exit ==
    /\ Running
    /\ Becomes([World EXCEPT !.status = "exited"])
    /\ backups' = backups + Cardinality(listeners)
    /\ saved' = IF listeners # {} /\ dir THEN buffer ELSE saved
    /\ disk' = IF listeners # {} /\ dir THEN backup(disk) ELSE disk
    /\ op' = Op("exit")
    /\ UNCHANGED <<handled, dir, gen, Async>>

\* a new process constructs a queue over the same directory with the same
\* configuration and recover set
Restart ==
    /\ ~Running
    /\ gen < MaxRestarts
    /\ gen' = gen + 1
    /\ \E en \in BOOLEAN :
          Becomes([New(limit, ms, 2 * minimum, warnings, en)
                      EXCEPT !.produced = produced])
    /\ rec' = "exists"
    /\ reads' = {}
    /\ op' = Op("restart")
    /\ UNCHANGED <<handled, dir, disk, backups, saved>>

\* the calls of the host and the timer
Calls(Scripts) ==
    \/ Push
    \/ Drain(Scripts)
    \/ Enable
    \/ Disable(Scripts)
    \/ Update(Scripts)
    \/ Tick(Scripts)
    \/ Exit

\* a listener of 'data' that calls nothing back
Passive == {<<>>}

\* a queue just constructed, in a host and over a directory
InitWith(Ls, Ss, Bs, Ws, Es, Ds, Rs, Hs) ==
    /\ \E lim \in Ls, step \in Ss, base \in Bs, warn \in Ws, en \in Es :
          Holds(New(lim, step, base, warn, en))
    /\ handled \in Hs
    /\ dir \in BOOLEAN
    /\ disk \in IF dir THEN Ds ELSE {NoFiles}
    /\ rec \in Rs
    /\ reads = {}
    /\ backups = 0
    /\ saved = <<>>
    /\ gen = 0
    /\ op = Op("new")

\* the queue and its scheduler under every configuration: recover is off
\* and its callbacks are not followed
Init ==
    /\ InitWith(Limits, Steps, Bases, BOOLEAN, BOOLEAN, {NoFiles}, {"off"},
                {FALSE})
    /\ dir

Next == Calls(Passive)

Spec == Init /\ [][Next]_vars

\* the callbacks of recovery(), and a second process
Callbacks ==
    \/ ExistsPath
    \/ Filter
    \/ ReadFile
    \/ Restart

\* persistence: one configuration with recover set, every directory, a
\* host with and without a handler for uncaught exceptions
RecoveryInit ==
    InitWith({MaxLimit}, {1}, {2}, {TRUE}, BOOLEAN, Disks, {"exists"},
             BOOLEAN)

RecoveryNext ==
    \/ Push
    \/ Enable
    \/ Disable(Passive)
    \/ Tick(Passive)
    \/ Exit
    \/ Callbacks

RecoverySpec == RecoveryInit /\ [][RecoveryNext]_vars

\* the queue and its scheduler with a listener of 'data' that calls back
\* into the queue while a batch is delivered
ReInit ==
    /\ InitWith({MaxLimit}, Steps, {2}, {TRUE}, BOOLEAN, {NoFiles}, {"off"},
                {FALSE})
    /\ dir

ReNext == Calls(ScriptsUpTo(MaxNest))

ReSpec == ReInit /\ [][ReNext]_vars

\* delivery: producers and the recovery of one file feed the queue, and a
\* pending timer of the host's event loop fires unless it is cleared
DeliveryInit ==
    InitWith({MaxLimit}, {1}, {2}, {FALSE}, {TRUE},
             {d \in Disks : /\ d[<<"a", "kju">>] = Absent
                            /\ d[<<"b", "kju">>].kind = "array"},
             {"exists"}, BOOLEAN)

DeliveryNext ==
    \/ Push
    \/ Enable
    \/ Disable(Passive)
    \/ Tick(Passive)
    \/ ExistsPath
    \/ Filter
    \/ ReadFile

DeliverySpec ==
    DeliveryInit /\ [][DeliveryNext]_vars /\ WF_vars(Tick(Passive))

\* the scheduler with warnings on, under every small configuration and
\* under interval 1000 with ms 100
CeilingInit ==
    /\ \/ InitWith(Limits, Steps, Bases, {TRUE}, BOOLEAN, {NoFiles}, {"off"},
                    {FALSE})
       \/ InitWith({MaxLimit}, {100}, {1000}, {TRUE}, BOOLEAN, {NoFiles},
                    {"off"}, {FALSE})
    /\ dir

CeilingSpec == CeilingInit /\ [][Next]_vars

(* ---------------------------------------------------------------- claims *)

\* the values that make up the queue's own state
queue == <<buffer, length, drained, processed, interval, minimum, maximum,
           timeout, timers, listeners, published, pushed>>

\* C1: whenever the buffer is empty, processed equals the number of items
\* ever pushed, and the published batches together hold every pushed item
\* exactly once
C1_ItemConservation ==
    buffer = <<>> =>
        /\ processed = Len(pushed)
        /\ SameItems(Flatten(published), pushed)

\* C1 witness: items pushed in two calls went out in two batches and the
\* buffer is empty again
C1_Witness ==
    /\ buffer = <<>>
    /\ Len(pushed) = MaxItems
    /\ Len(published) >= 2
    /\ \A i \in 1..Len(published) : published[i].batch # <<>>

\* C2: in every state after construction minimum <= interval <= maximum,
\* with minimum half and maximum double the baseline interval
C2_IntervalWithinBounds ==
    /\ minimum <= interval
    /\ interval <= maximum
    /\ maximum = 4 * minimum

\* C3: with the scheduler enabled, a push that takes length to limit or
\* beyond gets its buffer drained without waiting for the timer, so the
\* timer never fires next on the full buffer that push left behind
C3_PushAtLimitDrains ==
    [][(op.name = "push" /\ timeout # None /\ length >= limit) =>
          op'.name # "tick"]_vars

\* C7: a drain() called with length = 0 publishes nothing and changes
\* neither the counters nor the buffer
C7_EmptyDrainIsNoOp ==
    [][(op'.name = "drain" /\ length = 0) =>
          /\ emitted' = <<>>
          /\ UNCHANGED <<published, drained, processed, buffer, length>>]_vars

\* C8: exactly one timer is pending while this.timeout is set, and none
\* while it is not
C8_SingleTimer ==
    /\ timeout # None => timers = {timeout}
    /\ timeout = None => timers = {}

\* C8 witness: update() was called directly on an enabled queue whose
\* earlier timers had fired or been cancelled, and one timer is pending
C8_Witness ==
    /\ op.name = "update"
    /\ timeout # None
    /\ Cardinality(timers) = 1
    /\ Cardinality(listeners) >= 2
    /\ drained > 0

\* C9: one exit listener bound to backup is registered while the scheduler
\* is enabled and none while it is disabled, and backup has run at most once
C9_HookTracksScheduler ==
    /\ Cardinality(listeners) = IF timeout # None THEN 1 ELSE 0
    /\ backups <= 1

\* C10: a disable() that directly follows a disable() changes nothing of
\* the queue and emits nothing
C10_DisableIdempotent ==
    [][(op.name = "disable" /\ op'.name = "disable") =>
          /\ emitted' = <<>>
          /\ UNCHANGED <<queue, delay, produced, faults, status>>]_vars

\* C10 witness: a second disable() in a row ran, without nocommit, on a
\* queue the first one left with items in its buffer
C10_Witness ==
    /\ op = OpOn("disable", <<"again">>)
    /\ buffer # <<>>
    /\ length = Len(buffer)
    /\ listeners # {}

\* t occurs in s as a block of consecutive items
Contains(s, t) ==
    \E k \in 0..(Len(s) - Len(t)) : \A i \in 1..Len(t) : s[k + i] = t[i]

\* the process has only run its recovery: the listing succeeded, every
\* read completed, and nothing else was called
OnlyRecovered ==
    /\ Running
    /\ rec = "done"
    /\ reads = {}
    /\ published = <<>>
    /\ \A i \in 1..Len(pushed) : pushed[i] > MaxItems

\* C4: when backup() ran on a non-empty buffer S in an existing directory,
\* a queue then constructed with recover over that directory holds S, in
\* order, once its recovery has completed
C4_BackupRoundTrip ==
    (gen > 0 /\ saved # <<>> /\ OnlyRecovered) => Contains(buffer, saved)

\* C5: the read of a file that holds a JSON array appends the file's items
\* to the buffer in order, adds their number to length, and leaves no file
C5_RecoveryConsumesFile ==
    [][(op'.name = "readFile" /\ disk[op'.arg].kind = "array") =>
          /\ buffer' = buffer \o disk[op'.arg].items
          /\ length' = length + Len(disk[op'.arg].items)
          /\ disk'[op'.arg] = Absent]_vars

\* C6: the read of a file that cannot be read or parsed emits error.recover,
\* pushes nothing, leaves the file, throws nothing out of the callback and
\* leaves the process running with the other reads still to complete
C6_RecoveryFailureIsolated ==
    [][(op'.name = "readFile"
            /\ disk[op'.arg].kind \in {"unreadable", "corrupt"}) =>
          /\ Names(emitted') = <<"error.recover">>
          /\ UNCHANGED <<buffer, length, pushed, disk>>
          /\ faults' = faults
          /\ status' = "running"
          /\ reads' = reads \ {op'.arg}]_vars

\* the updates a freshly constructed queue needs to settle on maximum when
\* its buffer stays empty: the steps of ms from the baseline to maximum,
\* and one more when the last step goes beyond it
FromBaseline ==
    LET steps == (maximum - 2 * minimum + ms - 1) \div ms
    IN  IF 2 * minimum + steps * ms = maximum THEN steps ELSE steps + 1

\* C11: with warnings on, once enough updates in a row have found the
\* buffer underfull the interval equals maximum and stays there (after 10
\* updates on an always empty buffer for interval 1000 and ms 100), and
\* every update on an underfull buffer that leaves the interval at maximum
\* emits warning.maximum
C11_CeilingConvergence ==
    /\ [](run >= Patience(World) => interval = maximum)
    /\ []((pushed = <<>> /\ gen = 0 /\ run >= FromBaseline) =>
             interval = maximum)
    /\ [][(op'.name \in {"tick", "update"} /\ timeout # None
              /\ (length = 0 \/ length < limit) /\ interval' = maximum) =>
             "warning.maximum" \in Range(Names(emitted'))]_vars

\* C11 witness: a queue made with interval 1000 and ms 100 whose buffer was
\* always empty has run one tick more than the ten that take it to 2000,
\* and that tick left the interval at 2000 and warned again
C11_Witness ==
    /\ op.name = "tick"
    /\ ms = 100
    /\ pushed = <<>>
    /\ run = FromBaseline + 1
    /\ interval = 2000
    /\ "warning.maximum" \in Range(Names(emitted))

\* s is the beginning of t
IsPrefix(s, t) == Len(s) <= Len(t) /\ SubSeq(t, 1, Len(s)) = s

\* C12: a read that completes while the scheduler is disabled pushes the
\* file's items, arms no timer, publishes nothing and leaves the queue in a
\* running process; while the scheduler stays disabled the buffer only
\* grows; and the first tick after an enable() publishes the whole buffer
C12_RecoveryNotCancelled ==
    /\ [][(op'.name = "readFile" /\ disk[op'.arg].kind = "array"
              /\ timeout = None) =>
             /\ buffer' = buffer \o disk[op'.arg].items
             /\ length' = length + Len(disk[op'.arg].items)
             /\ timeout' = None
             /\ timers' = {}
             /\ published' = published
             /\ status' = "running"]_vars
    /\ [][(timeout = None /\ op'.name # "restart") =>
             /\ IsPrefix(buffer, buffer')
             /\ published' = published]_vars
    /\ [][(op'.name = "tick" /\ length > 0) =>
             /\ published' = Append(published, DataSig(buffer, length))
             /\ buffer' = <<>>]_vars

\* C13: in every reachable state length is the number of items in the
\* buffer, also when a data subscriber pushes while drain delivers its batch
C13_LengthIsBufferSize == length = Len(buffer)

\* C14: drained is the number of data signals published so far and
\* processed the sum of the sizes of their batches; within one process the
\* two counters never decrease; push, enable, disable(nocommit) and a tick
\* on an empty buffer leave both unchanged
C14_CounterAccounting ==
    /\ [](drained = Len(published) /\ processed = SumCounts(published))
    /\ [][op'.name # "restart" =>
             drained' >= drained /\ processed' >= processed]_vars
    /\ [][(\/ op'.name \in {"push", "enable"}
           \/ op'.name = "disable" /\ "nocommit" \in Range(op'.arg)
           \/ op'.name = "tick" /\ length = 0 /\ buffer = <<>>) =>
             drained' = drained /\ processed' = processed]_vars

Min(a, b) == IF a <= b THEN a ELSE b
Max(a, b) == IF a >= b THEN a ELSE b

\* C15: a tick of the enabled scheduler, with the interval within
\* [minimum, maximum] and the fill level taken before the tick's drain,
\* sets the interval to min(maximum, interval + ms) when length < limit and
\* to max(minimum, interval - ms) when length >= limit, and arms the one
\* next timer with that interval
C15_StepFunction ==
    [][(op'.name = "tick" /\ minimum <= interval /\ interval <= maximum) =>
          /\ interval' = IF length < limit
                           THEN Min(maximum, interval + ms)
                           ELSE Max(minimum, interval - ms)
          /\ timeout' # None
          /\ timers' = {timeout'}
          /\ delay' = interval']_vars

\* C16: the buffer holds, in call order, the items pushed since the last
\* drain; a push only appends; a drain() publishes exactly one data signal
\* whose batch is that buffer and whose count is its size, and leaves the
\* buffer empty with length 0
C16_PushThenDrain ==
    /\ [](pushed = Flatten(published) \o buffer)
    /\ [][op'.name = "push" =>
             /\ IsPrefix(buffer, buffer')
             /\ published' = published]_vars
    /\ [][op'.name = "drain" =>
             /\ emitted' = <<DataSig(buffer, Len(buffer))>>
             /\ published' = Append(published, DataSig(buffer, Len(buffer)))
             /\ buffer' = <<>>
             /\ length' = 0]_vars

\* C16 witness: items 1 and 2 were pushed into an empty buffer and the
\* drain() after them published both in call order as one batch
C16_Witness ==
    /\ op.name = "drain"
    /\ limit = 1
    /\ pushed = <<1, 2>>
    /\ published = <<DataSig(<<1, 2>>, 2)>>
    /\ buffer = <<>> /\ length = 0

\* C17: disable() on the enabled scheduler with a non-empty buffer and no
\* nocommit publishes exactly one data signal holding the whole buffer,
\* followed by 'disabled'; with nocommit or an empty buffer it publishes
\* no data signal and leaves buffer, length, drained and processed as they
\* were; either way no timer is pending afterwards and the interval is
\* unchanged
C17_DisableProtocol ==
    [][(op'.name = "disable" /\ timeout # None) =>
          /\ IF buffer # <<>> /\ "nocommit" \notin Range(op'.arg)
               THEN /\ emitted' = <<DataSig(buffer, Len(buffer)),
                                    Sig("disabled")>>
                    /\ published' = Append(published,
                                           DataSig(buffer, Len(buffer)))
                    /\ buffer' = <<>>
                    /\ length' = 0
               ELSE /\ emitted' = <<Sig("disabled")>>
                    /\ published' = published
                    /\ UNCHANGED <<buffer, length, drained, processed>>
          /\ timeout' = None
          /\ timers' = {}
          /\ interval' = interval]_vars

\* C17 witness: disable() of the enabled scheduler has just published the
\* two buffered items as one batch and then 'disabled'
C17_Witness ==
    /\ op = OpOn("disable", <<>>)
    /\ emitted = <<DataSig(<<1, 2>>, 2), Sig("disabled")>>
    /\ buffer = <<>>
    /\ timeout = None /\ timers = {}

\* C17 witness of the other case: disable(true) of the enabled scheduler
\* kept the two buffered items and published only 'disabled'
C17_WitnessNocommit ==
    /\ op = OpOn("disable", <<"nocommit">>)
    /\ emitted = <<Sig("disabled")>>
    /\ buffer = <<1, 2>> /\ length = 2
    /\ timeout = None /\ timers = {}

\* C18: update(), called directly or by a timer, on the disabled scheduler
\* changes nothing: interval, buffer, length and counters stay, no timer
\* is armed and no signal is published, whatever the fill level
C18_UpdateWhileDisabled ==
    [][(op'.name \in {"update", "tick"} /\ timeout = None) =>
          /\ UNCHANGED <<interval, buffer, length, drained, processed,
                         timeout, timers, published>>
          /\ emitted' = <<>>]_vars

\* C18 witness: update() has just run on the disabled scheduler with the
\* buffer over the limit
C18_Witness ==
    /\ op.name = "update"
    /\ timeout = None
    /\ limit = 1 /\ buffer = <<1, 2>> /\ length = 2
    /\ published = <<>>

\* C19: every item ever pushed is in the buffer or in a published batch,
\* and a non-empty buffer of the enabled scheduler is emptied unless the
\* scheduler is disabled or the process ends first, so that every buffered
\* item is published; a tick of the enabled scheduler leaves one pending
\* timer behind, so that the enabled scheduler always has its timer pending
C19_EventualDelivery ==
    /\ [](Range(pushed) = Range(buffer) \cup Range(Flatten(published)))
    /\ (buffer # <<>> /\ timeout # None /\ Running)
          ~> (buffer = <<>> \/ timeout = None \/ ~Running)
    /\ [][(op'.name = "tick" /\ timeout # None) =>
             timeout' # None /\ timeout' \in timers']_vars
    /\ []((timeout # None /\ Running) => timeout \in timers)

\* C19 witness: an item pushed by a producer and one pushed by a recovery
\* read have been published by a tick of the scheduler, which is still
\* enabled with its timer pending
C19_Witness ==
    /\ op.name = "tick"
    /\ Running /\ timeout # None /\ timeout \in timers
    /\ buffer = <<>>
    /\ published # <<>>
    /\ {1, 103} \subseteq Range(published[Len(published)].batch)

\* a data signal with a non-empty batch whose size is its count
WellFormed(sig) ==
    sig.name = "data" => sig.batch # <<>> /\ Len(sig.batch) = sig.count

\* C20: every data signal published by a public operation (push, enable,
\* disable, update, a tick) carries a non-empty batch whose size is the
\* count sent with it, also when a data subscriber calls public operations
\* while the signal is delivered
C20_WellFormedData ==
    [][op'.name \in {"push", "enable", "disable", "update", "tick"} =>
          \A k \in 1..Len(emitted') : WellFormed(emitted'[k])]_vars

====
